---- MODULE Spec2Model ----
(***************************************************************************)
(* Model of the meeting-archive pipeline of src/main.py: the derivation of *)
(* the base filename of a video link (convert_to_iso8601_datetime,         *)
(* sanitize_filename, the three branches of process_page) and the          *)
(* download / extract / transcribe / cleanup workflow that process_page    *)
(* runs for every link of every page, with the filesystem as its only      *)
(* state.                                                                  *)
(*                                                                         *)
(* A text is a sequence of one-character strings.                          *)
(***************************************************************************)
EXTENDS Integers, Sequences, FiniteSets, TLC

\* ------------------------------------------------------------------ texts

UpperLetters ==
  <<"A","B","C","D","E","F","G","H","I","J","K","L","M",
    "N","O","P","Q","R","S","T","U","V","W","X","Y","Z">>

LowerLetters ==
  <<"a","b","c","d","e","f","g","h","i","j","k","l","m",
    "n","o","p","q","r","s","t","u","v","w","x","y","z">>

DigitChars == <<"0","1","2","3","4","5","6","7","8","9">>

Range(s) == {s[i] : i \in DOMAIN s}

\* the texts: Python's str
Text == Seq(STRING)

\* [A-Za-z] of the pattern
Letters == Range(UpperLetters) \cup Range(LowerLetters)

\* \d of the pattern
Digits == Range(DigitChars)

\* \s of the pattern (the whitespace characters the model draws from)
Spaces == {" ", "\t"}

\* \w of re.sub's character class
WordChars == Letters \cup Digits \cup {"_"}

\* str.lower() on one character, as strptime's case-insensitive match does
LowerChar[c \in STRING] ==
  IF \E i \in 1..26 : UpperLetters[i] = c
    THEN LowerLetters[CHOOSE i \in 1..26 : UpperLetters[i] = c]
    ELSE c

Lower[s \in Text] == [i \in DOMAIN s |-> LowerChar[s[i]]]

\* int() of one decimal digit
DigitVal[c \in Digits] == (CHOOSE i \in 1..10 : DigitChars[i] = c) - 1

\* int() of a text of decimal digits
ToInt[s \in Text] ==
  IF s = <<>> THEN 0
  ELSE 10 * ToInt[SubSeq(s, 1, Len(s) - 1)] + DigitVal[s[Len(s)]]

\* str() of a natural number
ToText[n \in Nat] ==
  IF n < 10 THEN <<DigitChars[n + 1]>>
  ELSE ToText[n \div 10] \o <<DigitChars[(n % 10) + 1]>>

\* the format specification :02d
Pad2[n \in Nat] == IF n < 10 THEN <<"0">> \o ToText[n] ELSE ToText[n]

\* str.replace(c, r) for a one-character c and r empty (to delete) or of
\* one character, as in every call of the code
Replace[s \in Text, c \in STRING, r \in Text] ==
  IF s = <<>> THEN <<>>
  ELSE IF r = <<>> THEN SelectSeq(s, LAMBDA x : x # c)
  ELSE [i \in 1..Len(s) |-> IF s[i] = c THEN r[1] ELSE s[i]]

\* re.sub(r'[^...]', '', s): keep the characters of the set
Keep[s \in Text, set \in SUBSET STRING] ==
  SelectSeq(s, LAMBDA x : x \in set)

\* s[:n]
Truncate[s \in Text, n \in Nat] ==
  IF Len(s) > n THEN SubSeq(s, 1, n) ELSE s

\* the first index j >= i of s with s[j] outside set, Len(s)+1 when none
Span[s \in Text, i \in Int, set \in SUBSET STRING] ==
  IF i > Len(s) THEN Len(s) + 1
  ELSE IF s[i] \in set THEN Span[s, i + 1, set] ELSE i

\* s[i:j] of Python with 1-based i and exclusive j
Slice(s, i, j) == SubSeq(s, i, j - 1)

\* whether text t occurs in s at index i
OccursAt[s \in Text, t \in Text, i \in Int] ==
  /\ i >= 1
  /\ i + Len(t) - 1 <= Len(s)
  /\ \A k \in 1..Len(t) : s[i + k - 1] = t[k]

\* str.find: the first index at which t occurs in s, 0 when none
Find[s \in Text, t \in Text] ==
  IF \E i \in 1..Len(s) : OccursAt[s, t, i]
    THEN CHOOSE i \in 1..Len(s) :
           /\ OccursAt[s, t, i]
           /\ \A j \in 1..(i - 1) : ~OccursAt[s, t, j]
    ELSE 0

\* str.rfind of a one-character c: the last index of c in s, 0 when none
RFind[s \in Text, c \in STRING] ==
  IF \E i \in 1..Len(s) : s[i] = c
    THEN CHOOSE i \in 1..Len(s) :
           /\ s[i] = c
           /\ \A j \in (i + 1)..Len(s) : s[j] # c
    ELSE 0

\* str.strip()
LStrip[s \in Text] ==
  IF s # <<>> /\ Head(s) \in Spaces THEN LStrip[Tail(s)] ELSE s

RStrip[s \in Text] ==
  IF s # <<>> /\ s[Len(s)] \in Spaces
    THEN RStrip[SubSeq(s, 1, Len(s) - 1)] ELSE s

Strip[s \in Text] == RStrip[LStrip[s]]

\* ------------------------------------------- convert_to_iso8601_datetime

\* the month names strptime's %B accepts (C locale), lower case
MonthNames ==
  << <<"j","a","n","u","a","r","y">>,
     <<"f","e","b","r","u","a","r","y">>,
     <<"m","a","r","c","h">>,
     <<"a","p","r","i","l">>,
     <<"m","a","y">>,
     <<"j","u","n","e">>,
     <<"j","u","l","y">>,
     <<"a","u","g","u","s","t">>,
     <<"s","e","p","t","e","m","b","e","r">>,
     <<"o","c","t","o","b","e","r">>,
     <<"n","o","v","e","m","b","e","r">>,
     <<"d","e","c","e","m","b","e","r">> >>

\* the names %b accepts: the first three letters of each
MonthAbbrs == [m \in 1..12 |-> SubSeq(MonthNames[m], 1, 3)]

\* datetime.strptime(name, fmt).month over a table of names; 0 stands for
\* the ValueError strptime raises when the name is in no entry
StrptimeMonth[name \in Text, table \in Seq(Text)] ==
  IF \E m \in 1..12 : table[m] = Lower[name]
    THEN CHOOSE m \in 1..12 : table[m] = Lower[name]
    ELSE 0

\* lines 79-87: %B first, %b when %B raises, 0 when both raise
MonthNum[name \in Text] ==
  IF StrptimeMonth[name, MonthNames] # 0
    THEN StrptimeMonth[name, MonthNames]
    ELSE StrptimeMonth[name, MonthAbbrs]

\* the result of re.match when the pattern does not match
NoMatch ==
  [ok |-> FALSE, month_name |-> <<>>, day |-> <<>>, year |-> <<>>,
   meeting_desc |-> <<>>, hour |-> <<>>, minute |-> <<>>, am_pm |-> <<>>]

MatchResults ==
  [ok : BOOLEAN, month_name : Text, day : Text, year : Text,
   meeting_desc : Text, hour : Text, minute : Text, am_pm : Text]

\* the tail of the pattern, \s+at\s+(\d{1,2}):(\d{2})\s+(AM|PM), tried at
\* index e of s, given where the runs of spaces and digits end
TailOk[s \in Text, e, j1, j2, j3, j4 \in Int] ==
  /\ j1 > e
  /\ OccursAt[s, <<"a","t">>, j1]
  /\ j2 > j1 + 2
  /\ j3 - j2 \in {1, 2}
  /\ OccursAt[s, <<":">>, j3]
  /\ j3 + 2 <= Len(s)
  /\ s[j3 + 1] \in Digits
  /\ s[j3 + 2] \in Digits
  /\ j4 > j3 + 3
  /\ (OccursAt[s, <<"A","M">>, j4] \/ OccursAt[s, <<"P","M">>, j4])

\* the groups (hour, minute, AM/PM) of the tail matched at index e of s,
\* or NoMatch
TailMatch[s \in Text, e \in Int] ==
  LET j1 == Span[s, e, Spaces]
      j2 == Span[s, j1 + 2, Spaces]
      j3 == Span[s, j2, Digits]
      j4 == Span[s, j3 + 3, Spaces]
  IN  IF TailOk[s, e, j1, j2, j3, j4]
        THEN [NoMatch EXCEPT !.ok = TRUE, !.hour = Slice(s, j2, j3),
                !.minute = Slice(s, j3 + 1, j3 + 3),
                !.am_pm = Slice(s, j4, j4 + 2)]
        ELSE NoMatch

\* the first index e >= i of s where the tail matches, 0 when none
FirstTail[s \in Text, i \in Int] ==
  IF \E e \in i..Len(s) : TailMatch[s, e].ok
    THEN CHOOSE e \in i..Len(s) :
           /\ TailMatch[s, e].ok
           /\ \A j \in i..(e - 1) : ~TailMatch[s, j].ok
    ELSE 0

\* the head of the pattern, ([A-Za-z]+)\s+(\d{1,2}),?\s+(\d{4})\s+, given
\* where the runs of letters, spaces and digits end
HeadOk[i1, i2, i3, i4, i5, i6, i7 \in Int] ==
  /\ i1 > 1
  /\ i2 > i1
  /\ i3 - i2 \in {1, 2}
  /\ i5 > i4
  /\ i6 - i5 = 4
  /\ i7 > i6

\* the groups of the match whose description is s[i7:e] (e > 0), or is
\* empty with the tail at i7 - 1 (\s+ after the year gives one space back)
Groups[s \in Text, i1, i2, i3, i5, i6, i7, e \in Int] ==
  IF e > 0
    THEN [TailMatch[s, e] EXCEPT !.month_name = Slice(s, 1, i1),
            !.day = Slice(s, i2, i3), !.year = Slice(s, i5, i6),
            !.meeting_desc = Slice(s, i7, e)]
  ELSE IF i7 - i6 >= 2 /\ TailMatch[s, i7 - 1].ok
    THEN [TailMatch[s, i7 - 1] EXCEPT !.month_name = Slice(s, 1, i1),
            !.day = Slice(s, i2, i3), !.year = Slice(s, i5, i6)]
  ELSE NoMatch

\* re.match(pattern, meeting_info) of lines 69-70: the seven groups, or
\* NoMatch.  The description (.*?) is lazy: it ends at the first index
\* where the tail matches.
Match[s \in Text] ==
  LET i1 == Span[s, 1, Letters]
      i2 == Span[s, i1, Spaces]
      i3 == Span[s, i2, Digits]
      i4 == IF OccursAt[s, <<",">>, i3] THEN i3 + 1 ELSE i3
      i5 == Span[s, i4, Spaces]
      i6 == Span[s, i5, Digits]
      i7 == Span[s, i6, Spaces]
  IN  IF HeadOk[i1, i2, i3, i4, i5, i6, i7]
        THEN Groups[s, i1, i2, i3, i5, i6, i7, FirstTail[s, i7]]
        ELSE NoMatch

\* lines 90-94: the 12-hour clock to the 24-hour clock
Hour24NoNoonTest(hour_int, am_pm) ==
  IF am_pm = <<"P","M">> THEN hour_int + 12
  ELSE IF am_pm = <<"A","M">> /\ hour_int = 12 THEN 0
  ELSE hour_int

Hour24(hour_int, am_pm) ==
  IF am_pm = <<"P","M">> /\ hour_int # 12 THEN hour_int + 12
  ELSE IF am_pm = <<"A","M">> /\ hour_int = 12 THEN 0
  ELSE hour_int

\* lines 96-102: the identifier of a match with month number month_num
IsoName(m, month_num) ==
  m.year \o <<"-">> \o Pad2[month_num] \o <<"-">> \o Pad2[ToInt[m.day]]
    \o <<"T">> \o Pad2[Hour24(ToInt[m.hour], m.am_pm)] \o m.minute
    \o <<"_">> \o Strip[m.meeting_desc]

\* lines 72-102 on the result m of re.match
Converted[meeting_info \in Text, m \in MatchResults] ==
  IF ~m.ok THEN meeting_info
  ELSE IF MonthNum[m.month_name] = 0 THEN meeting_info
  ELSE IsoName(m, MonthNum[m.month_name])

convert_to_iso8601_datetime(meeting_info) ==
  Converted[meeting_info, Match[meeting_info]]

\* ------------------------------------------------------ sanitize_filename

\* max_length=100 of sanitize_filename
max_length == 100

\* lines 110-113: the characters replaced or removed one by one
ReplaceUnsafe[text \in Text] ==
  Replace[Replace[Replace[Replace[Replace[Replace[Replace[Replace[Replace[
    Replace[text, ":", <<>>], ",", <<>>], "/", <<"-">>], "\\", <<"-">>],
    "?", <<>>], "*", <<>>], "\"", <<>>], "<", <<>>], ">", <<>>], "|", <<"-">>]

sanitize_filename(text) ==
  Truncate[Keep[Replace[ReplaceUnsafe[text], " ", <<"_">>],
                WordChars \cup {"-", "."}],
           max_length]

\* ------------------------------------------- base filename of a link

\* the value of a link without an img tag or whose img has no alt
NoAlt == <<"no alt">>

\* os.path.basename
Basename[p \in Text] == SubSeq(p, RFind[p, "/"] + 1, Len(p))

\* os.path.splitext(p)[0] for a p without separator: the text before the
\* last period, when a character other than a period precedes that period
SplitextRoot[p \in Text] ==
  IF RFind[p, "."] > 0 /\ \E i \in 1..(RFind[p, "."] - 1) : p[i] # "."
    THEN SubSeq(p, 1, RFind[p, "."] - 1) ELSE p

ForSp == <<"f","o","r"," ">>

\* alt_text.split('for ', 1)[1]
AfterFor[alt_text \in Text] ==
  SubSeq(alt_text, Find[alt_text, ForSp] + 4, Len(alt_text))

\* lines 216-221: the branch of a label containing 'for '
NameFromMeetingInfo(alt_text) ==
  sanitize_filename(convert_to_iso8601_datetime(AfterFor[alt_text]))

\* lines 222-225: the branch of a label without 'for '
NameFromPlainAlt(alt_text) ==
  Replace[Replace[Replace[alt_text, " ", <<"_">>], ":", <<>>], ",", <<>>]

\* lines 226-228: the branch of a link without label
NameFromUrl(video_url) == SplitextRoot[Basename[video_url]]

\* lines 207-228: base_filename of a link [href, alt]
BaseFilename(link) ==
  IF link.alt # NoAlt
    THEN IF Find[link.alt, ForSp] # 0
           THEN NameFromMeetingInfo(link.alt)
           ELSE NameFromPlainAlt(link.alt)
    ELSE NameFromUrl(link.href)

\* ---------------------------------------------------------- the pipeline

VARIABLES
  pc,            \* where the run is: "main", "for", "check", "download",
                 \* "extract", "transcribe", "cleanup", "done", "crashed"
  page_number,   \* the page main() is at
  mp4_links,     \* the links process_page found on the page
  link_idx,      \* how many of them the for loop has taken
  base_filename, \* base_filename of the link being processed
  files,         \* the three folders: per base filename, the state of the
                 \* .mp4, .mp3 and .txt file
  chunk_files,   \* per base filename, the number of _chunk_ files
  full_text,     \* the number of words of result["text"], -1 when unset
  stage_result,  \* what each stage did for the link being processed
  fetch_result,  \* what the last requests.get of a page did
  pages_fetched, \* the pages this run has requested
  prev_ok,       \* per base filename, the stages that succeeded in the
                 \* earlier processings of it
  end_files,     \* per base filename, its files when the last earlier
                 \* processing of it ended
  n_parts,       \* the parts the label of n_link was written from
  n_link,        \* the link whose base filename is derived
  n_pc,          \* where the derivation is: "link", "info", "iso",
                 \* "named", and "off" while the pipeline runs
  n_info,        \* meeting_info
  n_iso,         \* iso_formatted
  n_base,        \* base_filename
  c_pc,          \* where the chunker is: "text", "groups", "chunked", and
                 \* "off" while it does not run
  c_n,           \* the number of words the text was written with
  c_text,        \* the text to chunk
  c_words,       \* its words
  c_chunks,      \* the chunks produced so far
  t_pc,          \* two instances of the script on one link: where each
                 \* is, "off" while the model does not run them
  t_files,       \* the files of the link, shared by the two instances
  t_seen,        \* per instance, the files as its last existence test
                 \* found them
  t_src          \* per instance, the video file as the decoder opened it

pipeVars ==
  <<pc, page_number, mp4_links, link_idx, base_filename, files, chunk_files,
    full_text, stage_result, fetch_result, pages_fetched, prev_ok, end_files>>

nameVars == <<n_parts, n_link, n_pc, n_info, n_iso, n_base>>

chunkVars == <<c_pc, c_n, c_text, c_words, c_chunks>>

twoVars == <<t_pc, t_files, t_seen, t_src>>

vars == <<pipeVars, nameVars, chunkVars, twoVars>>

\* total_pages of main()
total_pages == 5

\* the most links a page of the model holds
MaxLinks == 2

Txt_Council == <<"C","o","u","n","c","i","l">>

Txt_Nov == <<"N","o","v">>

Txt_Multimedia == <<"M","u","l","t","i","m","e","d","i","a">>

\* "Multimedia for Nov 5, 2025 Council at 6:00 PM"
DatedAlt ==
  Txt_Multimedia \o <<" ">> \o ForSp \o Txt_Nov
    \o <<" ","5",","," ","2","0","2","5"," ">> \o Txt_Council
    \o <<" ","a","t"," ","6",":","0","0"," ","P","M">>

\* ".../foo/bar.mp4"
BarUrl == <<"/","f","o","o","/","b","a","r",".","m","p","4">>

\* the links the pages of the model hold: one with a dated label, one
\* without label
SampleLinks ==
  { [href |-> <<"/","v","/","1",".","m","p","4">>, alt |-> DatedAlt],
    [href |-> BarUrl, alt |-> NoAlt] }

BaseOf == [l \in SampleLinks |-> BaseFilename(l)]

FileNames == {BaseOf[l] : l \in SampleLinks}

\* what soup.find_all can return for a page
PageLinks ==
  UNION {[1..n -> SampleLinks] : n \in 0..MaxLinks}

\* base_filename before the loop has taken a link
NoName == <<"unset">>

\* a file is absent, complete, or partial: there, but not the whole
\* recording (a copy cut short, or derived from one)
FileStates == {"absent", "partial", "complete"}

NoFiles == [video |-> "absent", audio |-> "absent", transcript |-> "absent"]

\* end_files of a base filename no processing has ended for
NeverProcessed == [video |-> "none", audio |-> "none", transcript |-> "none"]

\* os.path.exists
Exists(f) == f # "absent"

Stages == {"download", "extract", "transcribe"}

NoResult == [s \in Stages |-> "none"]

\* the outcomes of download_file: requests.get raising (connect), 
\* raise_for_status raising (http), open raising (open), copyfileobj
\* raising while reading response.raw or writing the file (stream)
DownloadOutcomes == {"ok", "connect_error", "http_error", "open_error",
                     "stream_error"}

\* the outcomes lines 133-134 catch: the subclasses of RequestException
CaughtByDownload == {"connect_error", "http_error"}

\* the outcomes of the media decoder in extract_audio_func
ExtractOutcomes == {"ok", "no_audio_track", "error", "write_error"}

\* the outcomes of the transcription engine and the write of lines 175-181
TranscribeOutcomes == {"ok", "engine_error", "write_error"}

\* the word counts of result["text"] the model draws from
TextSizes == {0, 1, 501}

\* ------------------------------------------ the derivation of one name

\* the parts of a label that was not written from parts
NoParts ==
  [month |-> <<>>, month_num |-> -1, day |-> <<>>, year |-> <<>>,
   desc |-> <<>>, hour |-> <<>>, minute |-> <<>>, am_pm |-> <<>>]

\* the length of the long description and of the long label
LongLen == 90

Txt_Long == [i \in 1..LongLen |-> "a"]

Txt_Example == <<"C","i","t","y"," ","C","o","u","n","c","i","l"," ","R","e","g","u","l","a","r"," ","M","e","e","t","i","n","g">>

Txt_AM == <<"A","M">>

Txt_PM == <<"P","M">>

\* month names as labels write them, with the number of the month and 0
\* for a name strptime rejects
MonthSamples ==
  { [name |-> <<"N","o","v","e","m","b","e","r">>, num |-> 11],
    [name |-> Txt_Nov, num |-> 11],
    [name |-> <<"M","A","Y">>, num |-> 5],
    [name |-> <<"S","e","p","t">>, num |-> 0] }

\* a description that holds a clock time of its own
Txt_Moved == <<"H","e","a","r","i","n","g"," ","a","t"," ","5",":","0","0"," ","P","M"," ","M","o","v","e","d">>

DescSamples ==
  { Txt_Example, Txt_Council, <<>>, <<"M","a","y","o","r","'","s"," ","P","&","Z",":"," ","B","u","d","g","e","t","/","T","a","x",","," ","<","2","0","2","5",">">>,
    Txt_Long, Txt_Moved }

HourSamples == {<<"1","2">>, <<"6">>, <<"1">>, <<"1","1">>, <<"0","9">>,
                <<"1","3">>, <<"0">>}

DatedParts ==
  { [month |-> m.name, month_num |-> m.num, day |-> d,
     year |-> <<"2","0","2","5">>, desc |-> x, hour |-> h,
     minute |-> mi, am_pm |-> ap] :
      m \in MonthSamples, d \in {<<"5">>, <<"1","3">>}, x \in DescSamples,
      h \in HourSamples, mi \in {<<"0","0">>, <<"0","5">>},
      ap \in {Txt_AM, Txt_PM} }

\* '<Month> <Day>, <Year> <Description> at <Hour>:<Minute> <AM|PM>'
LabelOf(p) ==
  p.month \o <<" ">> \o p.day \o <<",", " ">> \o p.year \o <<" ">>
    \o p.desc \o <<" ", "a", "t", " ">> \o p.hour \o <<":">> \o p.minute
    \o <<" ">> \o p.am_pm

\* labels after 'for ' that are no dated label
PlainInfos ==
  { <<"S","p","e","c","i","a","l"," ","M","e","e","t","i","n","g","?">>,
    <<"N","o","v"," ","5",","," ","2","0","2","5"," ","C","o","u","n","c","i","l">>,
    <<"N","o","v"," ","5",","," ","2","0","2","5"," ","C","o","u","n","c","i","l"," ","a","t"," ","6",":","0","0"," ","p","m">>,
    <<"N","o","v"," ","1","2","3",","," ","2","0","2","5"," ","C","o","u","n","c","i","l"," ","a","t"," ","6",":","0","0"," ","P","M">>,
    <<>> }

\* labels without 'for '
PlainAlts ==
  { <<"A","g","e","n","d","a","/","P","a","c","k","e","t","?">>, <<"C","i","t","y"," ","C","o","u","n","c","i","l",":"," ","R","e","g","u","l","a","r",","," ","2","0","2","5">>, <<>>,
    Txt_Long \o Txt_Long,
    LabelOf([NoParts EXCEPT !.month = Txt_Nov, !.day = <<"5">>,
               !.year = <<"2","0","2","5">>, !.desc = Txt_Council,
               !.hour = <<"6">>, !.minute = <<"0","0">>, !.am_pm = Txt_PM]) }

\* the hrefs of links without label
UrlSamples ==
  { BarUrl, <<"/","f","o","o","/","b","a","r",".","m","p","4","?","x","=","1">>, <<"/","f","o","o","/">>, <<"/","f","o","o","/","a",".","b",".","m","p","4">>,
    <<"/","f","o","o","/","a"," ","b",".","m","p","4">>, <<"/","f","o","o","/","b","a","r">> }

PlainHref == <<"/","v","/","1",".","m","p","4">>

\* the links whose base filename the model derives, each with the parts
\* its label was written from
NameInputs ==
  {[parts |-> p,
    link |-> [href |-> PlainHref,
              alt |-> Txt_Multimedia \o <<" ">> \o ForSp \o LabelOf(p)]] :
      p \in DatedParts}
  \cup {[parts |-> NoParts,
         link |-> [href |-> PlainHref,
                   alt |-> Txt_Multimedia \o <<" ">> \o ForSp \o x]] :
          x \in PlainInfos}
  \cup {[parts |-> NoParts, link |-> [href |-> PlainHref, alt |-> x]] :
          x \in PlainAlts}
  \cup {[parts |-> NoParts, link |-> [href |-> u, alt |-> NoAlt]] :
          u \in UrlSamples}

\* the derivation of a name does not run
NamesOff ==
  /\ n_parts = NoParts
  /\ n_link = [href |-> <<>>, alt |-> NoAlt]
  /\ n_pc = "off"
  /\ n_info = <<>>
  /\ n_iso = <<>>
  /\ n_base = <<>>

Instances == {1, 2}

\* the two instances do not run
TwoOff ==
  /\ t_pc = [i \in Instances |-> "off"]
  /\ t_files = NoFiles
  /\ t_seen = [i \in Instances |-> NoFiles]
  /\ t_src = [i \in Instances |-> "absent"]

\* the chunker does not run
ChunkerOff ==
  /\ c_pc = "off"
  /\ c_n = 0
  /\ c_text = <<>>
  /\ c_words = <<>>
  /\ c_chunks = <<>>

Init ==
  /\ pc = "main"
  /\ page_number = 1
  /\ mp4_links = <<>>
  /\ link_idx = 0
  /\ base_filename = NoName
  /\ files = [n \in FileNames |-> NoFiles]
  /\ chunk_files = [n \in FileNames |-> 0]
  /\ full_text = -1
  /\ stage_result = NoResult
  /\ fetch_result = "none"
  /\ pages_fetched = 0
  /\ prev_ok = [n \in FileNames |-> {}]
  /\ end_files = [n \in FileNames |-> NeverProcessed]
  /\ n_parts = NoParts
  /\ n_link = [href |-> <<>>, alt |-> NoAlt]
  /\ n_pc = "off"
  /\ n_info = <<>>
  /\ n_iso = <<>>
  /\ n_base = <<>>
  /\ ChunkerOff
  /\ TwoOff

\* the stages that succeeded for the link being processed
OkStages == {s \in Stages : stage_result[s] = "ok"}

\* the bookkeeping when the processing of a link is over
EndOfLink ==
  IF base_filename = NoName
    THEN UNCHANGED <<prev_ok, end_files>>
    ELSE /\ prev_ok' = [prev_ok EXCEPT ![base_filename] = @ \cup OkStages]
         /\ end_files' = [end_files EXCEPT ![base_filename] =
                            files[base_filename]]

\* lines 264-265: main() goes on to the next page, or is done
NextPage ==
  IF page_number < total_pages
    THEN page_number' = page_number + 1 /\ pc' = "main"
    ELSE page_number' = page_number /\ pc' = "done"

\* PageFetchFails without the try of lines 191-196: the exception leaves
\* process_page and main
PageFetchFailsUncaught ==
  /\ pc = "main"
  /\ fetch_result' = "error"
  /\ pages_fetched' = pages_fetched + 1
  /\ pc' = "crashed"
  /\ UNCHANGED <<page_number, mp4_links, link_idx, base_filename,
                 stage_result, full_text, files, chunk_files, prev_ok,
                 end_files, nameVars, chunkVars, twoVars>>

\* lines 190-196: requests.get or raise_for_status raises; process_page
\* logs and returns
PageFetchFails ==
  /\ pc = "main"
  /\ fetch_result' = "error"
  /\ pages_fetched' = pages_fetched + 1
  /\ mp4_links' = <<>>
  /\ link_idx' = 0
  /\ base_filename' = NoName
  /\ stage_result' = NoResult
  /\ full_text' = -1
  /\ NextPage
  /\ UNCHANGED <<files, chunk_files, prev_ok, end_files, nameVars, chunkVars, twoVars>>

\* lines 190-204: the page is fetched and its links found; without links
\* process_page returns
PageFetched ==
  /\ pc = "main"
  /\ \E links \in PageLinks :
       /\ mp4_links' = links
       /\ IF links = <<>>
            THEN NextPage
            ELSE pc' = "for" /\ page_number' = page_number
  /\ fetch_result' = "ok"
  /\ pages_fetched' = pages_fetched + 1
  /\ link_idx' = 0
  /\ base_filename' = NoName
  /\ stage_result' = NoResult
  /\ full_text' = -1
  /\ UNCHANGED <<files, chunk_files, prev_ok, end_files, nameVars, chunkVars, twoVars>>

\* lines 206-233: the loop takes the next link and derives its paths
NextLink ==
  /\ pc = "for"
  /\ link_idx < Len(mp4_links)
  /\ EndOfLink
  /\ link_idx' = link_idx + 1
  /\ base_filename' = BaseOf[mp4_links[link_idx + 1]]
  /\ stage_result' = NoResult
  /\ full_text' = -1
  /\ pc' = "check"
  /\ UNCHANGED <<page_number, mp4_links, files, chunk_files, fetch_result,
                 pages_fetched, nameVars, chunkVars, twoVars>>

\* line 206: the loop is exhausted and process_page returns
ReturnFromPage ==
  /\ pc = "for"
  /\ link_idx >= Len(mp4_links)
  /\ EndOfLink
  /\ base_filename' = NoName
  /\ stage_result' = NoResult
  /\ full_text' = -1
  /\ NextPage
  /\ UNCHANGED <<mp4_links, link_idx, files, chunk_files, fetch_result,
                 pages_fetched, nameVars, chunkVars, twoVars>>

\* SkipAll without the check of line 237
SkipAllNever(f) == FALSE

\* line 237: the final output exists
SkipAll(f) == Exists(f.transcript)

\* lines 236-239: skip all steps if the transcription exists
Check ==
  /\ pc = "check"
  /\ pc' = IF SkipAll(files[base_filename]) THEN "for" ELSE "download"
  /\ UNCHANGED <<page_number, mp4_links, link_idx, base_filename, files,
                 chunk_files, full_text, stage_result, fetch_result,
                 pages_fetched, prev_ok, end_files, nameVars, chunkVars, twoVars>>

NeedsDownloadNoVideoTest(f) == ~Exists(f.audio)

\* NeedsDownload without the test of the audio file
NeedsDownloadNoAudioTest(f) == ~Exists(f.video)

\* line 242: download only if neither the audio nor the video is there
NeedsDownload(f) == ~Exists(f.audio) /\ ~Exists(f.video)

\* lines 126-134: the video file download_file leaves
Downloaded(f, outcome) ==
  CASE outcome = "ok"           -> [f EXCEPT !.video = "complete"]
    [] outcome = "stream_error" -> [f EXCEPT !.video = "partial"]
    [] OTHER                    -> f

\* where process_page is after download_file: an exception download_file
\* does not catch leaves process_page and main
AfterDownload(outcome) ==
  IF outcome = "ok" \/ outcome \in CaughtByDownload
    THEN "extract" ELSE "crashed"

\* lines 241-243, 123-134
Download ==
  /\ pc = "download"
  /\ IF NeedsDownload(files[base_filename])
       THEN \E outcome \in DownloadOutcomes :
              /\ files' = [files EXCEPT ![base_filename] =
                             Downloaded(@, outcome)]
              /\ stage_result' = [stage_result EXCEPT !["download"] = outcome]
              /\ pc' = AfterDownload(outcome)
       ELSE /\ stage_result' = [stage_result EXCEPT !["download"] = "skipped"]
            /\ pc' = "extract"
            /\ UNCHANGED files
  /\ UNCHANGED <<page_number, mp4_links, link_idx, base_filename,
                 chunk_files, full_text, fetch_result, pages_fetched,
                 prev_ok, end_files, nameVars, chunkVars, twoVars>>

\* lines 147-160: the audio file the media decoder leaves; the audio of a
\* partial video is partial
Extracted(f, outcome) ==
  CASE outcome = "ok"          -> [f EXCEPT !.audio = f.video]
    [] outcome = "write_error" -> [f EXCEPT !.audio = "partial"]
    [] OTHER                   -> f

\* line 246: extract_audio_func is called if the video file is present
VideoPresent(f) == Exists(f.video)

AudioAlreadyThereNever(f) == FALSE

\* lines 142-144: extract_audio_func returns if the audio file exists
AudioAlreadyThere(f) == Exists(f.audio)

\* lines 245-247, 136-160
Extract ==
  /\ pc = "extract"
  /\ IF ~VideoPresent(files[base_filename])
       THEN /\ stage_result' = [stage_result EXCEPT !["extract"] = "skipped"]
            /\ UNCHANGED files
     ELSE IF AudioAlreadyThere(files[base_filename])
       THEN /\ stage_result' = [stage_result EXCEPT !["extract"] = "exists"]
            /\ UNCHANGED files
     ELSE \E outcome \in ExtractOutcomes :
            /\ files' = [files EXCEPT ![base_filename] = Extracted(@, outcome)]
            /\ stage_result' = [stage_result EXCEPT !["extract"] = outcome]
  /\ pc' = "transcribe"
  /\ UNCHANGED <<page_number, mp4_links, link_idx, base_filename,
                 chunk_files, full_text, fetch_result, pages_fetched,
                 prev_ok, end_files, nameVars, chunkVars, twoVars>>

TranscribedNoWrite(f, outcome) == f

\* lines 175-181: the transcript file transcribe_audio leaves; the
\* transcript of a partial audio is partial
Transcribed(f, outcome) ==
  CASE outcome = "ok"          -> [f EXCEPT !.transcript = f.audio]
    [] outcome = "write_error" -> [f EXCEPT !.transcript = "partial"]
    [] OTHER                   -> f

\* AfterTranscribe with an except clause that lets the failure through
AfterTranscribeUncaught(outcome) ==
  IF outcome = "ok" THEN "cleanup" ELSE "crashed"

AfterTranscribeNoCleanup(outcome) == "for"

\* where process_page is after transcribe_audio: lines 183-184 catch
\* every Exception
AfterTranscribe(outcome) == "cleanup"

AudioMissingNever(f) == FALSE

\* lines 164-166: transcribe_audio returns if the audio file does not exist
AudioMissing(f) == ~Exists(f.audio)

TranscriptAlreadyThereNever(f) == FALSE

\* lines 168-170: transcribe_audio returns if the transcription exists
TranscriptAlreadyThere(f) == Exists(f.transcript)

\* lines 249-250, 162-184
Transcribe ==
  /\ pc = "transcribe"
  /\ IF AudioMissing(files[base_filename])
       THEN /\ stage_result' =
                 [stage_result EXCEPT !["transcribe"] = "no_audio_file"]
            /\ pc' = "cleanup"
            /\ UNCHANGED <<files, full_text>>
     ELSE IF TranscriptAlreadyThere(files[base_filename])
       THEN /\ stage_result' =
                 [stage_result EXCEPT !["transcribe"] = "exists"]
            /\ pc' = "cleanup"
            /\ UNCHANGED <<files, full_text>>
     ELSE \E outcome \in TranscribeOutcomes :
            /\ files' = [files EXCEPT ![base_filename] =
                           Transcribed(@, outcome)]
            /\ stage_result' =
                 [stage_result EXCEPT !["transcribe"] = outcome]
            /\ IF outcome = "engine_error"
                 THEN full_text' = -1
                 ELSE \E n \in TextSizes : full_text' = n
            /\ pc' = AfterTranscribe(outcome)
  /\ UNCHANGED <<page_number, mp4_links, link_idx, base_filename,
                 chunk_files, fetch_result, pages_fetched, prev_ok,
                 end_files, nameVars, chunkVars, twoVars>>

RemovedWithAudio(f) == [f EXCEPT !.video = "absent", !.audio = "absent"]

\* Removed when the cleanup is run only after a transcription
RemovedOnSuccess(f) ==
  IF Exists(f.transcript) THEN [f EXCEPT !.video = "absent"] ELSE f

\* lines 253-255: the video file after the cleanup
Removed(f) == [f EXCEPT !.video = "absent"]

\* lines 252-257: remove the video file if it is there; process_page
\* writes no chunk file
Cleanup ==
  /\ pc = "cleanup"
  /\ files' = [files EXCEPT ![base_filename] = Removed(@)]
  /\ pc' = "for"
  /\ UNCHANGED <<page_number, mp4_links, link_idx, base_filename,
                 chunk_files, full_text, stage_result, fetch_result,
                 pages_fetched, prev_ok, end_files, nameVars, chunkVars, twoVars>>

\* the script is run again over the folders it left
RunAgain ==
  /\ pc \in {"done", "crashed"}
  /\ EndOfLink
  /\ pc' = "main"
  /\ page_number' = 1
  /\ mp4_links' = <<>>
  /\ link_idx' = 0
  /\ base_filename' = NoName
  /\ stage_result' = NoResult
  /\ full_text' = -1
  /\ fetch_result' = "none"
  /\ pages_fetched' = 0
  /\ UNCHANGED <<files, chunk_files, nameVars, chunkVars, twoVars>>

Next ==
  \/ PageFetchFails
  \/ PageFetched
  \/ NextLink
  \/ ReturnFromPage
  \/ Check
  \/ Download
  \/ Extract
  \/ Transcribe
  \/ Cleanup
  \/ RunAgain

Spec == Init /\ [][Next]_vars

\* the files a run can find in the folders: complete files of earlier
\* runs, in any combination
FoundFiles ==
  [video : {"absent", "complete"}, audio : {"absent", "complete"},
   transcript : {"absent", "complete"}]

\* a run over folders that hold files already
InitFound ==
  /\ pc = "main"
  /\ page_number = 1
  /\ mp4_links = <<>>
  /\ link_idx = 0
  /\ base_filename = NoName
  /\ files \in [FileNames -> FoundFiles]
  /\ chunk_files = [n \in FileNames |-> 0]
  /\ full_text = -1
  /\ stage_result = NoResult
  /\ fetch_result = "none"
  /\ pages_fetched = 0
  /\ prev_ok = [n \in FileNames |-> {}]
  /\ end_files = [n \in FileNames |-> NeverProcessed]
  /\ NamesOff
  /\ ChunkerOff
  /\ TwoOff

SpecFound == InitFound /\ [][Next]_vars

\* --------------------------------- the derivation of one name, stepwise

InitNames ==
  /\ pc = "main"
  /\ page_number = 1
  /\ mp4_links = <<>>
  /\ link_idx = 0
  /\ base_filename = NoName
  /\ files = [n \in FileNames |-> NoFiles]
  /\ chunk_files = [n \in FileNames |-> 0]
  /\ full_text = -1
  /\ stage_result = NoResult
  /\ fetch_result = "none"
  /\ pages_fetched = 0
  /\ prev_ok = [n \in FileNames |-> {}]
  /\ end_files = [n \in FileNames |-> NeverProcessed]
  /\ \E input \in NameInputs :
       /\ n_parts = input.parts
       /\ n_link = input.link
  /\ n_pc = "link"
  /\ n_info = <<>>
  /\ n_iso = <<>>
  /\ n_base = <<>>
  /\ ChunkerOff
  /\ TwoOff

\* lines 211-217: the label contains 'for '; meeting_info is what follows
SplitFor ==
  /\ n_pc = "link"
  /\ n_link.alt # NoAlt
  /\ Find[n_link.alt, ForSp] # 0
  /\ n_info' = AfterFor[n_link.alt]
  /\ n_pc' = "info"
  /\ UNCHANGED <<n_parts, n_link, n_iso, n_base, pipeVars, chunkVars, twoVars>>

\* line 219
Convert ==
  /\ n_pc = "info"
  /\ n_iso' = convert_to_iso8601_datetime(n_info)
  /\ n_pc' = "iso"
  /\ UNCHANGED <<n_parts, n_link, n_info, n_base, pipeVars, chunkVars, twoVars>>

\* line 221
Sanitize ==
  /\ n_pc = "iso"
  /\ n_base' = sanitize_filename(n_iso)
  /\ n_pc' = "named"
  /\ UNCHANGED <<n_parts, n_link, n_info, n_iso, pipeVars, chunkVars, twoVars>>

\* lines 222-225: the label does not contain 'for '
PlainAlt ==
  /\ n_pc = "link"
  /\ n_link.alt # NoAlt
  /\ Find[n_link.alt, ForSp] = 0
  /\ n_base' = NameFromPlainAlt(n_link.alt)
  /\ n_pc' = "named"
  /\ UNCHANGED <<n_parts, n_link, n_info, n_iso, pipeVars, chunkVars, twoVars>>

\* lines 226-228: the link has no label
FromUrl ==
  /\ n_pc = "link"
  /\ n_link.alt = NoAlt
  /\ n_base' = NameFromUrl(n_link.href)
  /\ n_pc' = "named"
  /\ UNCHANGED <<n_parts, n_link, n_info, n_iso, pipeVars, chunkVars, twoVars>>

NextNames ==
  \/ SplitFor
  \/ Convert
  \/ Sanitize
  \/ PlainAlt
  \/ FromUrl

SpecNames == InitNames /\ [][NextNames]_vars

\* ------------------------------------------- the text chunker (spec 4.2)

\* the pipeline at the start of a run, for the specifications that do not
\* run it
PipelineAtStart ==
  /\ pc = "main"
  /\ page_number = 1
  /\ mp4_links = <<>>
  /\ link_idx = 0
  /\ base_filename = NoName
  /\ files = [n \in FileNames |-> NoFiles]
  /\ chunk_files = [n \in FileNames |-> 0]
  /\ full_text = -1
  /\ stage_result = NoResult
  /\ fetch_result = "none"
  /\ pages_fetched = 0
  /\ prev_ok = [n \in FileNames |-> {}]
  /\ end_files = [n \in FileNames |-> NeverProcessed]

\* the configured chunk size
chunk_size == 500

\* the texts drawn have up to MaxChunks full chunks and one word more
MaxChunks == 2

\* A text is written here as a sequence of tokens: a word is a positive
\* number (the words of a text are 1, 2, ... in order) and 0 is a run of
\* whitespace.
WordCounts ==
  {0, 1, chunk_size - 1}
    \cup {k * chunk_size + d : k \in 1..MaxChunks, d \in {-1, 0, 1}}

Spacings == {"single", "double", "leading", "padded"}

\* the text of n words with the given whitespace around them
TextOf(n, spacing) ==
  CASE spacing = "single" ->
         IF n = 0 THEN <<>>
         ELSE [i \in 1..(2 * n - 1) |-> IF i % 2 = 1 THEN (i + 1) \div 2 ELSE 0]
    [] spacing = "double" ->
         IF n = 0 THEN <<>>
         ELSE [i \in 1..(3 * n - 2) |-> IF i % 3 = 1 THEN (i + 2) \div 3 ELSE 0]
    [] spacing = "leading" ->
         IF n = 0 THEN <<>>
         ELSE [i \in 1..(2 * n) |-> IF i % 2 = 0 THEN i \div 2 ELSE 0]
    [] spacing = "padded" ->
         [i \in 1..(2 * n + 1) |-> IF i % 2 = 0 THEN i \div 2 ELSE 0]

IsWord(t) == t # 0

\* split on whitespace, empty tokens discarded
SplitWords(text) == SelectSeq(text, IsWord)

\* a group's words joined with single spaces
JoinWords(words) ==
  IF words = <<>> THEN <<>>
  ELSE [i \in 1..(2 * Len(words) - 1) |->
          IF i % 2 = 1 THEN words[(i + 1) \div 2] ELSE 0]

\* the i-th consecutive group of up to chunk_size words
Group(words, i) ==
  SubSeq(words, (i - 1) * chunk_size + 1,
         IF i * chunk_size < Len(words) THEN i * chunk_size ELSE Len(words))

MoreGroupsInclusive(words, n) == n * chunk_size <= Len(words)

\* whether words are left after n groups
MoreGroups(words, n) == n * chunk_size < Len(words)

InitChunk ==
  /\ PipelineAtStart
  /\ NamesOff
  /\ TwoOff
  /\ c_pc = "text"
  /\ \E n \in WordCounts, spacing \in Spacings :
       /\ c_n = n
       /\ c_text = TextOf(n, spacing)
  /\ c_words = <<>>
  /\ c_chunks = <<>>

\* the text is split into its words
Split ==
  /\ c_pc = "text"
  /\ c_words' = SplitWords(c_text)
  /\ c_pc' = "groups"
  /\ UNCHANGED <<c_n, c_text, c_chunks, pipeVars, nameVars, twoVars>>

\* the next group is joined into a chunk
NextChunk ==
  /\ c_pc = "groups"
  /\ MoreGroups(c_words, Len(c_chunks))
  /\ c_chunks' = Append(c_chunks, JoinWords(Group(c_words, Len(c_chunks) + 1)))
  /\ UNCHANGED <<c_pc, c_n, c_text, c_words, pipeVars, nameVars, twoVars>>

\* no word is left
EndChunks ==
  /\ c_pc = "groups"
  /\ ~MoreGroups(c_words, Len(c_chunks))
  /\ c_pc' = "chunked"
  /\ UNCHANGED <<c_n, c_text, c_words, c_chunks, pipeVars, nameVars, twoVars>>

NextChunker ==
  \/ Split
  \/ NextChunk
  \/ EndChunks

SpecChunk == InitChunk /\ [][NextChunker]_vars

\* ------------------------------- two instances of the script on one link

\* Each instance runs lines 236-255 for the link; an existence test and the
\* operation that follows it are separate steps.
InitTwo ==
  /\ PipelineAtStart
  /\ NamesOff
  /\ ChunkerOff
  /\ t_pc = [i \in Instances |-> "check"]
  /\ t_files \in FoundFiles
  /\ t_seen = [i \in Instances |-> NoFiles]
  /\ t_src = [i \in Instances |-> "absent"]

\* instance i goes to position p having seen the files as they are
Goes(i, p) ==
  /\ t_pc' = [t_pc EXCEPT ![i] = p]
  /\ t_seen' = [t_seen EXCEPT ![i] = t_files]

\* lines 237-239
TwoCheck(i) ==
  /\ t_pc[i] = "check"
  /\ Goes(i, IF SkipAll(t_files) THEN "end" ELSE "guard_download")
  /\ UNCHANGED <<t_files, t_src, pipeVars, nameVars, chunkVars>>

\* line 242
TwoGuardDownload(i) ==
  /\ t_pc[i] = "guard_download"
  /\ Goes(i, IF NeedsDownload(t_files) THEN "downloading"
                                       ELSE "guard_extract")
  /\ UNCHANGED <<t_files, t_src, pipeVars, nameVars, chunkVars>>

\* lines 126-134
TwoDownload(i) ==
  /\ t_pc[i] = "downloading"
  /\ \E outcome \in DownloadOutcomes :
       /\ t_files' = Downloaded(t_files, outcome)
       /\ t_pc' = [t_pc EXCEPT ![i] =
                     IF AfterDownload(outcome) = "crashed"
                       THEN "crashed" ELSE "guard_extract"]
  /\ UNCHANGED <<t_seen, t_src, pipeVars, nameVars, chunkVars>>

\* lines 246, 142-149: the tests, and the decoder opens the video
TwoGuardExtract(i) ==
  /\ t_pc[i] = "guard_extract"
  /\ Goes(i, IF VideoPresent(t_files) /\ ~AudioAlreadyThere(t_files)
               THEN "extracting" ELSE "guard_transcribe")
  /\ t_src' = [t_src EXCEPT ![i] = t_files.video]
  /\ UNCHANGED <<t_files, pipeVars, nameVars, chunkVars>>

\* lines 150-160: the decoder reads the video it opened and writes the
\* audio file
TwoExtract(i) ==
  /\ t_pc[i] = "extracting"
  /\ \E outcome \in ExtractOutcomes :
       t_files' =
         [t_files EXCEPT !.audio =
            Extracted([t_files EXCEPT !.video = t_src[i]], outcome).audio]
  /\ t_pc' = [t_pc EXCEPT ![i] = "guard_transcribe"]
  /\ UNCHANGED <<t_seen, t_src, pipeVars, nameVars, chunkVars>>

\* lines 164-170
TwoGuardTranscribe(i) ==
  /\ t_pc[i] = "guard_transcribe"
  /\ Goes(i, IF AudioMissing(t_files) \/ TranscriptAlreadyThere(t_files)
               THEN "guard_remove" ELSE "transcribing")
  /\ UNCHANGED <<t_files, t_src, pipeVars, nameVars, chunkVars>>

\* lines 173-184
TwoTranscribe(i) ==
  /\ t_pc[i] = "transcribing"
  /\ \E outcome \in TranscribeOutcomes :
       t_files' = Transcribed(t_files, outcome)
  /\ t_pc' = [t_pc EXCEPT ![i] = "guard_remove"]
  /\ UNCHANGED <<t_seen, t_src, pipeVars, nameVars, chunkVars>>

\* line 253
TwoGuardRemove(i) ==
  /\ t_pc[i] = "guard_remove"
  /\ Goes(i, IF Exists(t_files.video) THEN "removing" ELSE "end")
  /\ UNCHANGED <<t_files, t_src, pipeVars, nameVars, chunkVars>>

\* line 255: os.remove raises FileNotFoundError if the video is gone
TwoRemove(i) ==
  /\ t_pc[i] = "removing"
  /\ t_pc' = [t_pc EXCEPT ![i] =
                IF Exists(t_files.video) THEN "end" ELSE "crashed"]
  /\ t_files' = Removed(t_files)
  /\ UNCHANGED <<t_seen, t_src, pipeVars, nameVars, chunkVars>>

NextTwo ==
  \/ \E i \in Instances : TwoCheck(i)
  \/ \E i \in Instances : TwoGuardDownload(i)
  \/ \E i \in Instances : TwoDownload(i)
  \/ \E i \in Instances : TwoGuardExtract(i)
  \/ \E i \in Instances : TwoExtract(i)
  \/ \E i \in Instances : TwoGuardTranscribe(i)
  \/ \E i \in Instances : TwoTranscribe(i)
  \/ \E i \in Instances : TwoGuardRemove(i)
  \/ \E i \in Instances : TwoRemove(i)

SpecTwo == InitTwo /\ [][NextTwo]_vars

\* ------------------------------------------------- claims, the pipeline

\* the link being processed, or just processed, was processed before
ProcessedBefore ==
  base_filename # NoName /\ end_files[base_filename] # NeverProcessed

\* the stages whose collaborator was invoked for the link being processed
Invoked(s) == stage_result[s] \notin {"none", "skipped", "exists",
                                      "no_audio_file"}

\* C1: when the transcript of a link exists at the check of line 237, the
\* check is the first thing done for the link (no stage has run), and the
\* step from it ends the processing of the link with every file, every
\* chunk file and the record of invoked stages as they were.
C1_SkipOnExistingTranscript ==
  [][(pc = "check" /\ Exists(files[base_filename].transcript))
       => /\ stage_result = NoResult
          /\ pc' = "for"
          /\ files' = files
          /\ chunk_files' = chunk_files
          /\ stage_result' = NoResult
          /\ full_text' = full_text]_vars

\* a link was skipped because its transcript exists
C1_Witness ==
  /\ pc = "for"
  /\ base_filename # NoName
  /\ stage_result = NoResult
  /\ Exists(files[base_filename].transcript)

\* C2: when the processing of a link that reached the extraction stage is
\* over, its video file does not exist, whatever extraction and
\* transcription did.
C2_CleanupInvariant ==
  (pc \in {"for", "done", "crashed"} /\ base_filename # NoName
     /\ stage_result["extract"] # "none")
    => ~Exists(files[base_filename].video)

\* the processing of a link whose extraction failed is over
C2_Witness ==
  /\ pc = "for"
  /\ base_filename # NoName
  /\ stage_result["download"] = "ok"
  /\ stage_result["extract"] = "error"

\* C3 as stated: processing a link again repeats no stage that succeeded
\* before, and when it is over the files are those the earlier processing
\* left.
C3_Idempotent ==
  ProcessedBefore
    => /\ OkStages \cap prev_ok[base_filename] = {}
       /\ pc = "for" => files[base_filename] = end_files[base_filename]

\* C3 as amended: processing a link again never repeats an extraction or
\* a transcription that succeeded before; when the earlier processing
\* left a transcript it invokes no stage and leaves the files as they
\* were; it downloads again only when the earlier processing left neither
\* audio nor transcript.
C3_IdempotentAmended ==
  ProcessedBefore
    => /\ OkStages \cap prev_ok[base_filename] \subseteq {"download"}
       /\ Exists(end_files[base_filename].transcript)
            => /\ stage_result = NoResult
               /\ files[base_filename] = end_files[base_filename]
       /\ Invoked("download")
            => /\ ~Exists(end_files[base_filename].audio)
               /\ ~Exists(end_files[base_filename].transcript)

\* a second processing that only had the transcription left to do
C3_Witness ==
  /\ pc = "for"
  /\ ProcessedBefore
  /\ "extract" \in prev_ok[base_filename]
  /\ stage_result["download"] = "skipped"
  /\ stage_result["transcribe"] = "ok"

\* C4: a failure of the transcription leaves process_page at the cleanup
\* of the same link, with the page and its remaining links as they were;
\* a page is left only after its last link; a run that is done has
\* requested every page; and no run is ended by a transcription.
C4_TranscriptionFailureContained ==
  /\ [][(pc = "transcribe"
          /\ stage_result'["transcribe"] \in {"engine_error", "write_error"})
         => /\ pc' = "cleanup"
            /\ UNCHANGED <<page_number, mp4_links, link_idx>>]_vars
  /\ [][(pc = "for" /\ pc' \in {"main", "done"})
         => link_idx = Len(mp4_links)]_vars
  /\ [](pc = "done" => pages_fetched = total_pages)
  /\ [](pc = "crashed" => stage_result["transcribe"] = "none")

\* a transcription failed and links of the page are left
C4_Witness ==
  /\ pc = "cleanup"
  /\ stage_result["transcribe"] = "engine_error"
  /\ link_idx < Len(mp4_links)

\* C5 as stated: after a failure of download_file of any kind, the
\* processing of the link goes on with the next steps.
C5_DownloadFailureContained ==
  stage_result["download"] \in DownloadOutcomes \ {"ok"}
    => pc \in {"extract", "transcribe", "cleanup", "for"}

\* C6: a failed fetch of a page leaves main() at the next page (or done
\* after the last page) with no link taken and every file as it was; a
\* link is processed only on a page whose fetch succeeded; a run that is
\* done has requested every page.
C6_FailedPageSkipped ==
  /\ [][(pc = "main" /\ fetch_result' = "error")
         => /\ mp4_links' = <<>>
            /\ files' = files
            /\ IF page_number < total_pages
                 THEN pc' = "main" /\ page_number' = page_number + 1
                 ELSE pc' = "done"]_vars
  /\ [](pc \in {"for", "check", "download", "extract", "transcribe",
                "cleanup"} => fetch_result = "ok")
  /\ [](pc = "done" => pages_fetched = total_pages)

\* the fetch of a page failed and the run is at a later page
C6_Witness ==
  /\ pc = "main"
  /\ fetch_result = "error"
  /\ page_number > 1
  /\ pages_fetched < total_pages

\* C10 as stated: when the processing of a link has newly produced a
\* transcript, its chunk files are there, one per 500 words.
C10_ChunksWritten ==
  (pc = "for" /\ base_filename # NoName
     /\ stage_result["transcribe"] = "ok")
    => chunk_files[base_filename] = (full_text + 499) \div 500

\* ---------------------------------------------------- claims, the names

\* the characters of a safe filename
FilenameChars == WordChars \cup {"-", "."}

\* what sanitizing makes of a character it does not drop
CleanChar(c) ==
  IF c = " " THEN "_"
  ELSE IF c \in {"/", "\\", "|"} THEN "-"
  ELSE c

\* the characters sanitizing does not drop
Survives(c) == c \in FilenameChars \cup {" ", "/", "\\", "|"}

Cleaned[s \in Text] ==
  IF SelectSeq(s, Survives) = <<>> THEN <<>>
  ELSE [i \in 1..Len(SelectSeq(s, Survives)) |->
          CleanChar(SelectSeq(s, Survives)[i])]

Underscored[s \in Text] ==
  [i \in 1..Len(s) |-> IF s[i] = " " THEN "_" ELSE s[i]]

\* the hour of the day of a 12-hour clock time
ClockHour(hour, am_pm) ==
  CASE am_pm = Txt_AM /\ hour = 12 -> 0
    [] am_pm = Txt_AM /\ hour # 12 -> hour
    [] am_pm = Txt_PM /\ hour = 12 -> 12
    [] am_pm = Txt_PM /\ hour # 12 -> hour + 12

\* the label after 'for ' was written as a dated label with a month name
\* strptime accepts
Dated == n_parts # NoParts /\ n_parts.month_num > 0

\* descriptions with a clock time of their own
DescWithClock == {Txt_Moved}

DatePrefix(hh) ==
  n_parts.year \o <<"-">> \o Pad2[n_parts.month_num] \o <<"-">>
    \o Pad2[ToInt[n_parts.day]] \o <<"T">> \o Pad2[hh] \o n_parts.minute
    \o <<"_">>

\* C7 as stated: whichever branch derives it, the base filename holds only
\* word characters, hyphens and periods and is at most 100 characters long.
C7_FilenameSafe ==
  n_pc = "named" =>
    /\ Len(n_base) <= max_length
    /\ Range(n_base) \subseteq FilenameChars

\* C8 as stated: a dated label with a valid month name becomes
\* 'YYYY-MM-DDTHHMM_<description>' with the spaces of the description as
\* underscores, HH in 00..23, and for an hour of 1..12 the hour of the
\* 12-hour clock time.
C8_DateConversion ==
  (n_pc = "named" /\ Dated) =>
    \E hh \in 0..23 :
      /\ ToInt[n_parts.hour] \in 1..12
           => hh = ClockHour(ToInt[n_parts.hour], n_parts.am_pm)
      /\ n_base = DatePrefix(hh) \o Underscored[n_parts.desc]

\* C8 amended: a dated label with a valid month name, whose description
\* holds no clock time of its own, becomes the first 100 characters of
\* 'YYYY-MM-DDTHHMM_<description>' with the description sanitized (spaces
\* to underscores, slashes, backslashes and bars to hyphens, every other
\* character that is no word character, hyphen or period dropped); HH is
\* 00 for 12 AM, the hour for any other AM, 12 for 12 PM and the hour plus
\* twelve for any other PM, which is in 00..23 when the hour is in 1..12.
C8_DateConversionAmended ==
  (n_pc = "named" /\ Dated /\ n_parts.desc \notin DescWithClock) =>
    LET hour == ToInt[n_parts.hour]
        hh == IF n_parts.am_pm = Txt_PM
                THEN (IF hour = 12 THEN 12 ELSE hour + 12)
                ELSE (IF hour = 12 THEN 0 ELSE hour)
    IN /\ n_base = Truncate[DatePrefix(hh) \o Cleaned[n_parts.desc],
                            max_length]
       /\ hour \in 1..12 => hh = ClockHour(hour, n_parts.am_pm) /\ hh \in 0..23

C8_Witness ==
  /\ n_pc = "named"
  /\ n_parts.month = <<"N","o","v","e","m","b","e","r">>
  /\ n_parts.day = <<"1","3">>
  /\ n_parts.desc = Txt_Example
  /\ n_parts.hour = <<"6">>
  /\ n_parts.minute = <<"0","0">>
  /\ n_parts.am_pm = Txt_PM
  /\ n_base = <<"2","0","2","5","-","1","1","-","1","3","T","1","8","0","0","_","C","i","t","y","_","C","o","u","n","c","i","l","_","R","e","g","u","l","a","r","_","M","e","e","t","i","n","g">>

\* the last path segment of a URL without its extension
UrlStem(u) ==
  LET seg == SubSeq(u, RFind[u, "/"] + 1, Len(u))
      dot == RFind[seg, "."]
  IN IF dot > 1 THEN SubSeq(seg, 1, dot - 1) ELSE seg

\* C9 as stated: a label that is no dated label, or whose month name is not
\* recognised, comes back from convert_to_iso8601_datetime unchanged and
\* the base filename is the label sanitized; a link without label is named
\* by the last path segment of its URL without the extension.
C9_FallbackNaming ==
  n_pc = "named" =>
    /\ (n_link.alt # NoAlt /\ ~Dated /\ Find[n_link.alt, ForSp] # 0)
         => /\ n_iso = n_info
            /\ n_base = Truncate[Cleaned[n_info], max_length]
    /\ (n_link.alt # NoAlt /\ Find[n_link.alt, ForSp] = 0)
         => n_base = Truncate[Cleaned[n_link.alt], max_length]
    /\ n_link.alt = NoAlt => n_base = UrlStem(n_link.href)

\* --------------------------------------------------- claims, the chunker

\* C11: the chunks are consecutive groups of at most 500 words, none
\* empty, every one but the last of exactly 500; their words in chunk order
\* are the words of the text in order; a text of 500*k words gives k
\* chunks and an empty text none.
C11_ChunkRoundTrip ==
  c_pc = "chunked" =>
    LET k == Len(c_chunks)
    IN /\ \A j \in 1..k :
            LET w == SplitWords(c_chunks[j])
            IN /\ Len(w) \in 1..chunk_size
               /\ j < k => Len(w) = chunk_size
               /\ \A i \in 1..Len(w) : w[i] = (j - 1) * chunk_size + i
       /\ k = 0 => c_n = 0
       /\ k > 0 => (k - 1) * chunk_size + Len(SplitWords(c_chunks[k])) = c_n
       /\ c_n % chunk_size = 0 => k = c_n \div chunk_size

C11_Witness ==
  /\ c_pc = "chunked"
  /\ c_n = 2 * chunk_size
  /\ Len(c_chunks) = 2
  /\ Len(c_text) > Len(c_words)

\* ------------------------------------------- claims, the stages and files

\* the files of the link being processed
Current == files[base_filename]

\* the stages that failed for the link being processed
Failed(s) ==
  CASE s = "download"   -> stage_result[s] \in DownloadOutcomes \ {"ok"}
    [] s = "extract"    -> stage_result[s] \in {"error", "write_error"}
    [] s = "transcribe" -> stage_result[s] \in {"engine_error", "write_error"}

\* C12 as stated: every file that exists is complete, whatever stage
\* failed or was cut short.
C12_FilesComplete ==
  \A n \in FileNames :
    /\ files[n].video # "partial"
    /\ files[n].audio # "partial"
    /\ files[n].transcript # "partial"

\* C13 as stated: when the processing of a link is over, the files are
\* such that the next processing of it attempts again every stage that
\* failed: the skip test and the guard of the stage let it through.
C13_FailedStageRetried ==
  (pc = "for" /\ base_filename # NoName) =>
    /\ Failed("download") => (~SkipAll(Current) /\ NeedsDownload(Current))
    /\ Failed("extract") => (~SkipAll(Current) /\ ~AudioAlreadyThere(Current))
    /\ Failed("transcribe") =>
         (~SkipAll(Current) /\ ~TranscriptAlreadyThere(Current))

\* C14: at the download step of a link the download is invoked if and
\* only if its transcript, its audio file and its video file are all
\* absent.
C14_DownloadGuard ==
  [][pc = "download" =>
      (Invoked("download")' <=>
         /\ ~Exists(Current.transcript)
         /\ ~Exists(Current.audio)
         /\ ~Exists(Current.video))]_vars

C14_Witness ==
  /\ pc = "extract"
  /\ stage_result["download"] = "skipped"
  /\ Exists(Current.video)
  /\ ~Exists(Current.audio)

\* C15: extract_audio_func is called only when the video file exists, and
\* when the audio file exists the decoder is not invoked and no file
\* changes.
C15_ExtractionGuard ==
  [][pc = "extract" =>
      /\ (stage_result'["extract"] # "skipped") => Exists(Current.video)
      /\ Exists(Current.audio) =>
           /\ ~Invoked("extract")'
           /\ files' = files]_vars

C15_Witness ==
  /\ pc = "transcribe"
  /\ stage_result["extract"] = "exists"
  /\ Exists(Current.video)

\* C16: the engine is invoked, and a transcript written, only at the
\* transcription step of a link whose audio file exists and whose
\* transcript does not; without the audio file no file changes.
C16_TranscriptionGuard ==
  [][
      /\ \A n \in FileNames :
          files'[n].transcript # files[n].transcript
            => (pc = "transcribe" /\ n = base_filename)
      /\ pc = "transcribe" =>
           /\ (Invoked("transcribe")'
                 \/ Current.transcript # files'[base_filename].transcript)
                => (Exists(Current.audio) /\ ~Exists(Current.transcript))
           /\ ~Exists(Current.audio) => files' = files]_vars

C16_Witness ==
  /\ pc = "cleanup"
  /\ stage_result["extract"] = "no_audio_track"
  /\ stage_result["transcribe"] = "no_audio_file"
  /\ ~Exists(Current.transcript)

\* C17: no step deletes or rewrites an audio file or a transcript that
\* exists; a file that a step deletes is a video file.
C17_RetainedArtifacts ==
  [][\A n \in FileNames :
       /\ Exists(files[n].audio) => files'[n].audio = files[n].audio
       /\ Exists(files[n].transcript)
            => files'[n].transcript = files[n].transcript]_vars

C17_Witness ==
  /\ pc = "for"
  /\ base_filename # NoName
  /\ stage_result["extract"] = "exists"
  /\ stage_result["transcribe"] = "engine_error"
  /\ Exists(Current.audio)
  /\ ~Exists(Current.video)

\* C18: for a link the download comes first, then the extraction, then
\* the transcription, then the removal of the video, each at most once;
\* a step changes the files of the link being processed only; and the
\* loop goes on from a link only when it was skipped or its transcription
\* step and the removal of its video are over.
C18_StageOrder ==
  [][
      /\ (/\ stage_result'["download"] # stage_result["download"]
          /\ stage_result' # NoResult)
          => stage_result = NoResult
      /\ (/\ stage_result'["extract"] # stage_result["extract"]
          /\ stage_result' # NoResult)
          => /\ stage_result["download"] # "none"
             /\ stage_result["extract"] = "none"
             /\ stage_result["transcribe"] = "none"
      /\ (/\ stage_result'["transcribe"] # stage_result["transcribe"]
          /\ stage_result' # NoResult)
          => /\ stage_result["extract"] # "none"
             /\ stage_result["transcribe"] = "none"
      /\ \A n \in FileNames :
           /\ files'[n] # files[n] => n = base_filename
           /\ (Exists(files[n].video) /\ ~Exists(files'[n].video))
                => stage_result["transcribe"] # "none"
      /\ (pc = "for" /\ pc' # "for" /\ base_filename # NoName)
           => \/ stage_result = NoResult
              \/ /\ stage_result["transcribe"] # "none"
                 /\ ~Exists(Current.video)]_vars

C18_Witness ==
  /\ pc = "check"
  /\ link_idx = 2
  /\ {"download", "extract", "transcribe"}
       \subseteq prev_ok[BaseOf[mp4_links[1]]]
  /\ base_filename # BaseOf[mp4_links[1]]

\* C20: when every collaborator invoked for a link succeeded, the
\* processing of the link ends with its transcript present, and with its
\* video absent unless the link was skipped.
C20_Convergence ==
  (/\ pc = "for"
   /\ base_filename # NoName
   /\ \A s \in Stages : Invoked(s) => stage_result[s] = "ok")
    => /\ Exists(Current.transcript)
       /\ (stage_result # NoResult) => ~Exists(Current.video)

C20_Witness ==
  /\ pc = "for"
  /\ base_filename # NoName
  /\ ~ProcessedBefore
  /\ stage_result["download"] = "skipped"
  /\ stage_result["extract"] = "exists"
  /\ stage_result["transcribe"] = "ok"
  /\ Current.transcript = "complete"

\* ----------------------------------------------- claims, two instances

\* the other instance has not reached the link
Alone(i) == \A j \in Instances \ {i} : t_pc[j] = "check"

\* the stage instance i is in would pass its existence tests on files f
StillDue(i, f) ==
  /\ t_pc[i] = "downloading" => (~Exists(f.audio) /\ ~Exists(f.video))
  /\ t_pc[i] = "extracting" => (Exists(f.video) /\ ~Exists(f.audio))
  /\ t_pc[i] = "transcribing" => (Exists(f.audio) /\ ~Exists(f.transcript))
  /\ t_pc[i] = "removing" => Exists(f.video)

\* C19: an instance runs a stage on what its own existence tests found,
\* and as long as the other instance has not reached the link the files
\* are still as it found them; with both instances on the link the test
\* can be outdated, and both run the same stage at once.
C19_RaceBetweenCheckAndWrite ==
  \A i \in Instances :
    /\ StillDue(i, t_seen[i])
    /\ Alone(i) => StillDue(i, t_files)

C19_Witness ==
  /\ t_pc[1] = "downloading"
  /\ t_pc[2] = "downloading"
  /\ t_seen[1] = t_seen[2]

\* both instances transcribe at once
C19_BothTranscribe ==
  t_pc[1] = "transcribing" /\ t_pc[2] = "transcribing"

\* one instance has removed the video the other is extracting from
C19_RemovedWhileExtracting ==
  t_pc[1] = "extracting" /\ t_pc[2] = "end" /\ ~Exists(t_files.video)

====
